---- MODULE Spec2Model ----
(***************************************************************************)
(* Sidecar supervision in example/src-tauri/src/main.rs: setup spawns the  *)
(* sidecar, waits until its TCP port accepts, starts the heartbeat thread; *)
(* window-close, menu-quit and exit-requested handlers call kill_sidecar,  *)
(* which takes the child out of the mutex-guarded slot and terminates it   *)
(* (SIGTERM, a polled grace window, then kill through the handle).         *)
(*                                                                         *)
(* kill_sidecar takes an &AppHandle and guards the slot with a Mutex, so   *)
(* the handlers are modelled as threads that may interleave at every       *)
(* blocking call (lock, command execution, sleep).                         *)
(***************************************************************************)
EXTENDS Integers, FiniteSets

\* ---------------------------------------------------------------- bounds
\* Number of shutdown triggers that may fire in one process lifetime.
NumTriggers == 2

\* ------------------------------------------------------ program constants
\* Duration::from_millis(2000): the grace window.
GraceMs == 2000
\* Duration::from_millis(100): the sleep between two liveness probes.
PollMs == 100

Triggers == 1..NumTriggers
NoThread == 0
\* How long past its duration a sleep of the grace loop may run (ms).
Overshoots == {0, 100}
Kinds == {"window", "menu", "exit"}

\* Option<SidecarProcess>: present = Some(..); child, pid = the two Option fields.
NoProcess == [present |-> FALSE, child |-> FALSE, pid |-> FALSE]
SomeProcess(c, p) == [present |-> TRUE, child |-> c, pid |-> p]

VARIABLES
    mainPc,        \* position of the setup closure
    slot,          \* AppState.sidecar_child (the value inside the Mutex)
    lockHolder,    \* the thread holding the MutexGuard, or NoThread
    pc,            \* position of each trigger's handler
    kind,          \* which event each trigger is ("none" before it fires)
    process,       \* kill_sidecar's local `process`
    elapsed,       \* kill_sidecar's start.elapsed(), in ms
    childState,    \* the sidecar OS process: "none", "running", "exited"
    termPending,   \* the sidecar has received SIGTERM
    tcpListening,  \* localhost:4000 accepts connections
    sockListening, \* /tmp/tauri_heartbeat.sock accepts connections
    link,          \* the heartbeat UnixStream: "none", "connected", "severed"
    hbPc,          \* position of the heartbeat thread
    hbOdd,         \* the number of markers written so far is odd
    appExited,     \* std::process::exit(0) has been called
    took,          \* history: the trigger's guard.take() returned Some
    sawEmpty,      \* history: the trigger's guard.take() returned None
    sigs,          \* history: kill -TERM commands issued by the trigger
    kills,         \* history: child.kill() calls at line 76 by the trigger
    dropKills,     \* history: child.kill() calls in Drop by the trigger
    sawDead,       \* history: a probe of the trigger reported "not running"
    stores,        \* history: times start_server stored into the slot
    registered,    \* the events whose handler the builder has registered
    taken,         \* history: the value the trigger's guard.take() returned
    probed,        \* history: the trigger has run a kill -0 probe
    earlyBy        \* history: the probe outcome on which the loop was left

vars == <<mainPc, slot, lockHolder, pc, kind, process, elapsed, childState,
          termPending, tcpListening, sockListening, link, hbPc, hbOdd,
          appExited, took, sawEmpty, sigs, kills, dropKills, sawDead, stores,
          registered, taken, probed, earlyBy>>

triggerVars == <<lockHolder, slot, pc, kind, process, elapsed, took, sawEmpty,
                 sigs, kills, dropKills, sawDead, taken, probed, earlyBy>>
childVars == <<childState, termPending, tcpListening, sockListening, link>>
hbVars == <<hbPc, hbOdd>>

\* ------------------------------------------------------------------ Init
TriggerInit ==
    /\ lockHolder = NoThread
    /\ pc = [t \in Triggers |-> "idle"]
    /\ kind = [t \in Triggers |-> "none"]
    /\ process = [t \in Triggers |-> NoProcess]
    /\ elapsed = [t \in Triggers |-> 0]
    /\ took = [t \in Triggers |-> FALSE]
    /\ sawEmpty = [t \in Triggers |-> FALSE]
    /\ sigs = [t \in Triggers |-> 0]
    /\ kills = [t \in Triggers |-> 0]
    /\ dropKills = [t \in Triggers |-> 0]
    /\ sawDead = [t \in Triggers |-> FALSE]
    /\ taken = [t \in Triggers |-> NoProcess]
    /\ probed = [t \in Triggers |-> FALSE]
    /\ earlyBy = [t \in Triggers |-> "none"]
    /\ appExited = FALSE

\* main: .manage(AppState { sidecar_child: Mutex::new(None) }), then setup.
Init ==
    /\ TriggerInit
    /\ mainPc = "builder"
    /\ registered = {}
    /\ slot = NoProcess
    /\ childState = "none"
    /\ termPending = FALSE
    /\ tcpListening = FALSE
    /\ sockListening = FALSE
    /\ link = "none"
    /\ hbPc = "none"
    /\ hbOdd = FALSE
    /\ stores = 0

\* ------------------------------------------------------------- the sidecar
\* The sidecar process ends (on SIGTERM, on kill, or by itself): its
\* listeners close and an established heartbeat connection is severed.
ChildGone ==
    /\ childState' = "exited"
    /\ termPending' = FALSE
    /\ tcpListening' = FALSE
    /\ sockListening' = FALSE
    /\ link' = IF link = "connected" THEN "severed" ELSE link

\* child.kill() on the CommandChild: ends the process when it still runs.
KillChild ==
    IF childState = "running" THEN ChildGone ELSE UNCHANGED childVars

\* The phoenix server starts accepting on localhost:4000.
ChildListenTcp ==
    /\ childState = "running" /\ ~tcpListening
    /\ tcpListening' = TRUE
    /\ UNCHANGED <<childState, termPending, sockListening, link>>
    /\ UNCHANGED <<mainPc, appExited, stores, registered>> /\ UNCHANGED triggerVars
    /\ UNCHANGED hbVars

\* The sidecar opens its heartbeat socket.
ChildListenSock ==
    /\ childState = "running" /\ ~sockListening
    /\ sockListening' = TRUE
    /\ UNCHANGED <<childState, termPending, tcpListening, link>>
    /\ UNCHANGED <<mainPc, appExited, stores, registered>> /\ UNCHANGED triggerVars
    /\ UNCHANGED hbVars

\* The sidecar exits on its own (its SIGTERM handler, or a crash).
ChildExit ==
    /\ childState = "running"
    /\ ChildGone
    /\ UNCHANGED <<mainPc, appExited, stores, registered>> /\ UNCHANGED triggerVars
    /\ UNCHANGED hbVars

\* The sidecar closes the heartbeat connection while it keeps running.
ChildCloseLink ==
    /\ childState = "running" /\ link = "connected"
    /\ link' = "severed"
    /\ UNCHANGED <<childState, termPending, tcpListening, sockListening>>
    /\ UNCHANGED <<mainPc, appExited, stores, registered>> /\ UNCHANGED triggerVars
    /\ UNCHANGED hbVars

\* ------------------------------------------------------------------ setup
\* The Builder chain up to .run(..): .setup only stores its closure, then
\* on_menu_event and on_window_event register their handlers, build() makes
\* the application and run() installs the ExitRequested callback; the event
\* loop then calls the setup closure.
BuildApp ==
    /\ ~appExited /\ mainPc = "builder"
    /\ registered' = Kinds
    /\ mainPc' = "start_server"
    /\ UNCHANGED <<appExited, stores>> /\ UNCHANGED triggerVars
    /\ UNCHANGED childVars /\ UNCHANGED hbVars

\* Mutant of AfterSpawn: a failed spawn is logged and setup goes on.
AfterSpawn_GoesOn(ok) == "check_connect"

\* Mutant of AfterSpawn: setup goes from the spawn to the heartbeat.
AfterSpawn_SkipsWait(ok) == IF ok THEN "start_heartbeat" ELSE "aborted"

\* .expect(..) on sidecar("desktop") and on spawn(): Err panics, which ends
\* the application; Ok goes on, and setup calls check_server_started next.
AfterSpawn(ok) == IF ok THEN "check_connect" ELSE "aborted"

\* start_server: sidecar(..).expect / spawn().expect panic on failure;
\* otherwise the child and its pid are stored in the slot under the lock.
\* ok = whether sidecar("desktop") and spawn() both succeeded.
StartServer ==
    /\ ~appExited /\ mainPc = "start_server"
    /\ \E ok \in BOOLEAN :
         IF ok
         THEN /\ lockHolder = NoThread
              /\ slot' = SomeProcess(TRUE, TRUE)
              /\ stores' = stores + 1
              /\ childState' = "running"
              /\ mainPc' = AfterSpawn(ok)
         ELSE /\ mainPc' = AfterSpawn(ok)
              /\ UNCHANGED <<slot, stores, childState>>
    /\ UNCHANGED <<termPending, tcpListening, sockListening, link, appExited>>
    /\ UNCHANGED <<lockHolder, pc, kind, process, elapsed, took, sawEmpty,
                   sigs, kills, dropKills, sawDead, taken, probed, earlyBy>>
    /\ UNCHANGED <<registered>> /\ UNCHANGED hbVars

\* Mutant of AfterProbe: the wait ends after any attempt, failed or not.
AfterProbe_AnyAttempt(connected) == "start_heartbeat"

\* Where check_server_started goes after a connection attempt.
AfterProbe(connected) == IF connected THEN "start_heartbeat" ELSE "check_sleep"

\* check_server_started: one TcpStream::connect attempt.
CheckConnect ==
    /\ ~appExited /\ mainPc = "check_connect"
    /\ mainPc' = AfterProbe(tcpListening)
    /\ UNCHANGED <<appExited, stores, registered>> /\ UNCHANGED triggerVars
    /\ UNCHANGED childVars /\ UNCHANGED hbVars

\* check_server_started: thread::sleep(sleep_interval), then the next attempt.
CheckSleep ==
    /\ ~appExited /\ mainPc = "check_sleep"
    /\ mainPc' = "check_connect"
    /\ UNCHANGED <<appExited, stores, registered>> /\ UNCHANGED triggerVars
    /\ UNCHANGED childVars /\ UNCHANGED hbVars

\* start_heartbeat: spawns the heartbeat thread; setup returns Ok(()).
StartHeartbeat ==
    /\ ~appExited /\ mainPc = "start_heartbeat"
    /\ mainPc' = "running"
    /\ hbPc' = "connect"
    /\ UNCHANGED <<hbOdd, appExited, stores, registered>> /\ UNCHANGED triggerVars
    /\ UNCHANGED childVars

\* -------------------------------------------------------- heartbeat thread
\* Mutant of HbOnWriteErr: a failed write goes back to connecting.
HbOnWriteErr_Reconnect == "connect"

\* Where the heartbeat thread goes when write_all fails.
HbOnWriteErr == "stopped"

\* Mutant of HbAfterConnect: a failed connect ends the thread.
HbAfterConnect_GivesUp(ok) == IF ok THEN "write" ELSE "stopped"

\* match UnixStream::connect(..) { Ok(s) => break s, Err(_) => sleep }
HbAfterConnect(ok) == IF ok THEN "write" ELSE "connect_sleep"

\* UnixStream::connect(socket_path): Ok breaks out of the loop, Err sleeps.
HbConnect ==
    /\ ~appExited /\ hbPc = "connect"
    /\ hbPc' = HbAfterConnect(sockListening)
    /\ link' = IF sockListening THEN "connected" ELSE link
    /\ UNCHANGED <<childState, termPending, tcpListening, sockListening>>
    /\ UNCHANGED <<hbOdd, mainPc, appExited, stores, registered>> /\ UNCHANGED triggerVars

\* thread::sleep(100 ms) after a failed connect.
HbConnectSleep ==
    /\ ~appExited /\ hbPc = "connect_sleep"
    /\ hbPc' = "connect"
    /\ UNCHANGED <<hbOdd, mainPc, appExited, stores, registered>> /\ UNCHANGED triggerVars
    /\ UNCHANGED childVars

\* stream.write_all(b"h"): Ok while the connection stands, Err once severed.
HbWrite ==
    /\ ~appExited /\ hbPc = "write"
    /\ IF link = "connected"
       THEN /\ hbOdd' = ~hbOdd /\ hbPc' = "write_sleep"
       ELSE /\ hbPc' = HbOnWriteErr /\ UNCHANGED hbOdd
    /\ UNCHANGED <<mainPc, appExited, stores, registered>> /\ UNCHANGED triggerVars
    /\ UNCHANGED childVars

\* thread::sleep(interval) between two markers.
HbWriteSleep ==
    /\ ~appExited /\ hbPc = "write_sleep"
    /\ hbPc' = "write"
    /\ UNCHANGED <<hbOdd, mainPc, appExited, stores, registered>> /\ UNCHANGED triggerVars
    /\ UNCHANGED childVars

\* ------------------------------------------------------------ kill_sidecar
\* Mutant of SlotAfterTake: the child is read but left in the slot.
SlotAfterTake_Kept(s) == s

\* Option::take on the guarded slot: the slot is left None.
SlotAfterTake(s) == NoProcess

\* Mutant of HolderAfterTake: the guard is dropped right after the take.
HolderAfterTake_Released(t) == NoThread

\* Who holds the MutexGuard once the child is taken: `guard` lives to the end
\* of the `if let Ok(mut guard)` block, so the taker keeps it.
HolderAfterTake(t) == t

\* Mutant of LoopContinues: the poll interval is used as the timeout.
LoopContinues_PollAsTimeout(e) == e < PollMs

\* while start.elapsed() < timeout
LoopContinues(e) == e < GraceMs

\* Mutant of ElapsedAfterSleep: the start instant is reset at every round.
ElapsedAfterSleep_Reset(e, o) == 0

\* start.elapsed() after thread::sleep(100 ms) that overshot by o ms.
ElapsedAfterSleep(e, o) == e + PollMs + o

\* Command::new("kill").args(["-0", pid]).output(): Err when the command could
\* not be run; otherwise its exit status tells whether the process exists.
ProbeOutcome(ran) ==
    IF ~ran THEN "err" ELSE IF childState = "running" THEN "alive" ELSE "dead"

\* Mutant of LeavesEarly: a probe that could not be run counts as "gone".
LeavesEarly_UnlessAlive(outcome) == outcome # "alive"

\* if let Ok(output) = status { if !output.status.success() { return; } }
LeavesEarly(outcome) == outcome = "dead"

\* Drop for SidecarProcess: kills when self.child is still Some.
DropKills(p) == p.child

\* Mutant of AfterKillSidecar: exit-requested prevents the exit and spawns
\* no thread to exit later.
AfterKillSidecar_NoExitThread(k) ==
    CASE k = "menu" -> "menu_sleep"
      [] OTHER -> "done"

\* What each handler does once kill_sidecar has returned.
AfterKillSidecar(k) ==
    CASE k = "menu" -> "menu_sleep"
      [] k = "exit" -> "exit_thread"
      [] OTHER -> "done"

\* let _ = Command::new("kill")...output(): the result is discarded.
AfterSignal(ok) == "poll"

\* Mutant of AfterForceKill: an error of child.kill() is unwrapped.
AfterForceKill_Unwrap(ok) == IF ok THEN "drop" ELSE "panicked"

\* let _ = child.kill(): the result is discarded.
AfterForceKill(ok) == "drop"

\* Mutant of HandleAfterKill: the handle is used without being taken.
HandleAfterKill_Kept(c) == c

\* process.child.take(): the field is left None.
HandleAfterKill(c) == FALSE

\* Mutant of SignalsWith: SIGTERM is attempted whether or not a pid is known.
SignalsWith_Always(p) == TRUE

\* if let Some(pid) = process.pid
SignalsWith(p) == p.pid

\* A window-close, menu-quit or exit-requested event is dispatched; its
\* handler enters kill_sidecar (try_state is Some: AppState is managed).
\* Triggers are numbered in the order they fire.
Fire(t, k) ==
    /\ ~appExited /\ mainPc = "running" /\ pc[t] = "idle"
    /\ k \in registered
    /\ \A u \in Triggers : u < t => pc[u] # "idle"
    /\ kind' = [kind EXCEPT ![t] = k]
    /\ pc' = [pc EXCEPT ![t] = "lock"]
    /\ UNCHANGED <<lockHolder, slot, process, elapsed, took, sawEmpty, sigs,
                   kills, dropKills, sawDead, taken, probed, earlyBy>>
    /\ UNCHANGED <<mainPc, appExited, stores, registered>>
    /\ UNCHANGED childVars /\ UNCHANGED hbVars

\* state.sidecar_child.lock(): blocks while another thread holds the guard.
Lock(t) ==
    /\ ~appExited /\ pc[t] = "lock"
    /\ lockHolder = NoThread
    /\ lockHolder' = t
    /\ pc' = [pc EXCEPT ![t] = "take"]
    /\ UNCHANGED <<slot, kind, process, elapsed, took, sawEmpty, sigs, kills,
                   dropKills, sawDead, taken, probed, earlyBy>>
    /\ UNCHANGED <<mainPc, appExited, stores, registered>>
    /\ UNCHANGED childVars /\ UNCHANGED hbVars

\* if let Some(mut process) = guard.take(): None falls through to the end of
\* the function, where the guard is dropped.
Take(t) ==
    /\ ~appExited /\ pc[t] = "take"
    /\ IF slot.present
       THEN /\ process' = [process EXCEPT ![t] = slot]
            /\ taken' = [taken EXCEPT ![t] = slot]
            /\ slot' = SlotAfterTake(slot)
            /\ took' = [took EXCEPT ![t] = TRUE]
            /\ lockHolder' = HolderAfterTake(t)
            /\ pc' = [pc EXCEPT ![t] = "signal"]
            /\ UNCHANGED sawEmpty
       ELSE /\ sawEmpty' = [sawEmpty EXCEPT ![t] = TRUE]
            /\ lockHolder' = IF lockHolder = t THEN NoThread ELSE lockHolder
            /\ pc' = [pc EXCEPT ![t] = "returned"]
            /\ UNCHANGED <<process, slot, took, taken>>
    /\ UNCHANGED <<kind, elapsed, sigs, kills, dropKills, sawDead, probed,
                   earlyBy>>
    /\ UNCHANGED <<mainPc, appExited, stores, registered>>
    /\ UNCHANGED childVars /\ UNCHANGED hbVars

\* if let Some(pid) = process.pid: kill -TERM pid (its result is discarded),
\* then start = Instant::now(). Without a pid: straight to the fallback.
\* delivered = whether the command ran and signalled a running process.
Signal(t) ==
    /\ ~appExited /\ pc[t] = "signal"
    /\ IF SignalsWith(process[t])
       THEN /\ \E delivered \in BOOLEAN :
                 /\ termPending' =
                      (termPending \/ (delivered /\ childState = "running"))
                 /\ pc' = [pc EXCEPT ![t] =
                             AfterSignal(delivered /\ childState = "running")]
            /\ sigs' = [sigs EXCEPT ![t] = @ + 1]
            /\ elapsed' = [elapsed EXCEPT ![t] = 0]
       ELSE /\ pc' = [pc EXCEPT ![t] = "kill"]
            /\ UNCHANGED <<termPending, sigs, elapsed>>
    /\ UNCHANGED <<childState, tcpListening, sockListening, link>>
    /\ UNCHANGED <<lockHolder, slot, kind, process, took, sawEmpty, kills,
                   dropKills, sawDead, taken, probed, earlyBy>>
    /\ UNCHANGED <<mainPc, appExited, stores, registered>> /\ UNCHANGED hbVars

\* The loop test and one kill -0 probe. A probe that ran and found no process
\* returns from kill_sidecar (the scope exit is Return); any other outcome
\* goes on to the sleep. Once the window is over: the fallback.
Poll(t) ==
    /\ ~appExited /\ pc[t] = "poll"
    /\ IF LoopContinues(elapsed[t])
       THEN /\ probed' = [probed EXCEPT ![t] = TRUE]
            /\ \E ran \in BOOLEAN :
                 IF LeavesEarly(ProbeOutcome(ran))
                 THEN /\ sawDead' = [sawDead EXCEPT ![t] = TRUE]
                      /\ earlyBy' = [earlyBy EXCEPT ![t] = ProbeOutcome(ran)]
                      /\ pc' = [pc EXCEPT ![t] = "drop"]
                 ELSE /\ pc' = [pc EXCEPT ![t] = "sleep"]
                      /\ UNCHANGED <<sawDead, earlyBy>>
       ELSE /\ pc' = [pc EXCEPT ![t] = "kill"]
            /\ UNCHANGED <<sawDead, earlyBy, probed>>
    /\ UNCHANGED <<lockHolder, slot, kind, process, elapsed, took, sawEmpty,
                   sigs, kills, dropKills, taken>>
    /\ UNCHANGED <<mainPc, appExited, stores, registered>>
    /\ UNCHANGED childVars /\ UNCHANGED hbVars

\* std::thread::sleep(Duration::from_millis(100)) inside the grace loop.
Sleep(t) ==
    /\ ~appExited /\ pc[t] = "sleep"
    /\ \E o \in Overshoots :
         elapsed' = [elapsed EXCEPT ![t] = ElapsedAfterSleep(@, o)]
    /\ pc' = [pc EXCEPT ![t] = "poll"]
    /\ UNCHANGED <<lockHolder, slot, kind, process, took, sawEmpty, sigs,
                   kills, dropKills, sawDead, taken, probed, earlyBy>>
    /\ UNCHANGED <<mainPc, appExited, stores, registered>>
    /\ UNCHANGED childVars /\ UNCHANGED hbVars

\* if let Some(child) = process.child.take() { let _ = child.kill(); }
\* ok = whether child.kill() returned Ok; an Err leaves the sidecar as it is.
ForceKill(t) ==
    /\ ~appExited /\ pc[t] = "kill"
    /\ IF process[t].child
       THEN /\ kills' = [kills EXCEPT ![t] = @ + 1]
            /\ process' = [process EXCEPT ![t].child = HandleAfterKill(@)]
            /\ \E ok \in BOOLEAN :
                 /\ IF ok THEN KillChild ELSE UNCHANGED childVars
                 /\ pc' = [pc EXCEPT ![t] = AfterForceKill(ok)]
       ELSE /\ UNCHANGED <<kills, process>>
            /\ UNCHANGED childVars
            /\ pc' = [pc EXCEPT ![t] = "drop"]
    /\ UNCHANGED <<lockHolder, slot, kind, elapsed, took, sawEmpty, sigs,
                   dropKills, sawDead, taken, probed, earlyBy>>
    /\ UNCHANGED <<mainPc, appExited, stores, registered>> /\ UNCHANGED hbVars

\* The end of the `if let Some(mut process)` scope, by `return` or by falling
\* through: `process` is dropped (Drop for SidecarProcess, whose kill result
\* is discarded as well), then `guard`.
Return(t) ==
    /\ ~appExited /\ pc[t] = "drop"
    /\ IF DropKills(process[t])
       THEN /\ dropKills' = [dropKills EXCEPT ![t] = @ + 1]
            /\ \E ok \in BOOLEAN :
                 IF ok THEN KillChild ELSE UNCHANGED childVars
       ELSE /\ UNCHANGED dropKills
            /\ UNCHANGED childVars
    /\ process' = [process EXCEPT ![t] = NoProcess]
    /\ lockHolder' = IF lockHolder = t THEN NoThread ELSE lockHolder
    /\ pc' = [pc EXCEPT ![t] = "returned"]
    /\ UNCHANGED <<slot, kind, elapsed, took, sawEmpty, sigs, kills, sawDead,
                   taken, probed, earlyBy>>
    /\ UNCHANGED <<mainPc, appExited, stores, registered>> /\ UNCHANGED hbVars

\* kill_sidecar has returned to its handler: window-close is finished,
\* menu-quit sleeps 500 ms, exit-requested calls prevent_exit and spawns the
\* thread that sleeps 500 ms.
AfterKill(t) ==
    /\ ~appExited /\ pc[t] = "returned"
    /\ pc' = [pc EXCEPT ![t] = AfterKillSidecar(kind[t])]
    /\ UNCHANGED <<lockHolder, slot, kind, process, elapsed, took, sawEmpty,
                   sigs, kills, dropKills, sawDead, taken, probed, earlyBy>>
    /\ UNCHANGED <<mainPc, appExited, stores, registered>>
    /\ UNCHANGED childVars /\ UNCHANGED hbVars

\* std::process::exit(0), after the 500 ms sleep: every thread of the
\* application ends with it.
ProcessExit(t) ==
    /\ ~appExited /\ pc[t] \in {"menu_sleep", "exit_thread"}
    /\ appExited' = TRUE
    /\ UNCHANGED <<mainPc, stores, registered>> /\ UNCHANGED triggerVars
    /\ UNCHANGED childVars /\ UNCHANGED hbVars

\* The steps a fired trigger's thread takes by itself.
TriggerStep(t) ==
    \/ Lock(t) \/ Take(t) \/ Signal(t) \/ Poll(t) \/ Sleep(t)
    \/ ForceKill(t) \/ Return(t) \/ AfterKill(t) \/ ProcessExit(t)

\* ---------------------------------------------------------- specifications
Next ==
    \/ BuildApp \/ StartServer \/ CheckConnect \/ CheckSleep \/ StartHeartbeat
    \/ HbConnect \/ HbConnectSleep \/ HbWrite \/ HbWriteSleep
    \/ ChildListenTcp \/ ChildListenSock \/ ChildExit \/ ChildCloseLink
    \/ \E t \in Triggers : (\E k \in Kinds : Fire(t, k)) \/ TriggerStep(t)

\* The whole application, from construction.
Spec == Init /\ [][Next]_vars

\* Every thread that can take a step is eventually scheduled; the sidecar and
\* the event sources are under no obligation.
Fairness ==
    /\ \A t \in Triggers : WF_vars(TriggerStep(t))
    /\ WF_vars(CheckConnect \/ CheckSleep \/ StartHeartbeat)
    /\ WF_vars(HbConnect \/ HbConnectSleep \/ HbWrite \/ HbWriteSleep)

FairSpec == Init /\ [][Next]_vars /\ Fairness

\* kill_sidecar on every value its slot's type admits: setup is over, the
\* slot holds None or any SidecarProcess, the sidecar runs or has exited.
KillInit ==
    /\ TriggerInit
    /\ mainPc = "running"
    /\ slot \in {NoProcess} \cup {SomeProcess(c, p) : c \in BOOLEAN, p \in BOOLEAN}
    /\ childState \in {"running", "exited"}
    /\ termPending = FALSE
    /\ tcpListening = FALSE
    /\ sockListening = FALSE
    /\ link = "none"
    /\ hbPc = "none"
    /\ hbOdd = FALSE
    /\ stores = IF slot.present THEN 1 ELSE 0
    /\ registered = Kinds

KillNext ==
    \/ ChildExit
    \/ \E t \in Triggers : (\E k \in Kinds : Fire(t, k)) \/ TriggerStep(t)

KillSpec == KillInit /\ [][KillNext]_vars

FairKillSpec ==
    KillInit /\ [][KillNext]_vars /\ \A t \in Triggers : WF_vars(TriggerStep(t))

\* ------------------------------------------------------------ vocabulary
\* Positions inside kill_sidecar, and those of the termination protocol.
InCall == {"lock", "take", "signal", "poll", "sleep", "kill", "drop"}
ProtocolPcs == {"signal", "poll", "sleep", "kill", "drop"}
AfterCall == {"returned", "done", "menu_sleep", "exit_thread"}
Takers == {t \in Triggers : took[t]}

\* ---------------------------------------------------------------- claims
\* C1: however many triggers call kill_sidecar and however they interleave,
\* at most one of them takes the child and at most one SIGTERM is sent; a
\* trigger that did not take the child signals nothing, kills nothing, and
\* has found the slot empty once it is past the take.
C1_ProtocolRunsOnce ==
    /\ Cardinality(Takers) <= 1
    /\ \A t \in Triggers : sigs[t] <= 1
    /\ \A t \in Triggers :
         ~took[t] =>
            /\ sigs[t] = 0 /\ kills[t] = 0 /\ dropKills[t] = 0
            /\ (pc[t] \in AfterCall => sawEmpty[t])

C1_Witness ==
    \E t, u \in Triggers :
       /\ t # u /\ took[t] /\ sigs[t] = 1
       /\ sawEmpty[u] /\ pc[u] \in AfterCall /\ pc[t] \in AfterCall

\* C2: a run of kill_sidecar in which a probe reported the child gone never
\* calls kill on the child handle, neither at the fallback nor in Drop.
C2_NoKillAfterGracefulExit ==
    \A t \in Triggers : sawDead[t] => kills[t] = 0 /\ dropKills[t] = 0

\* C3: when no probe ever reports the child gone, kill through the handle
\* happens exactly once, and not before 2000 ms of the window have elapsed.
C3_ForcedKillAfterWindow ==
    \A t \in Triggers :
       (took[t] /\ ~sawDead[t]) =>
          /\ kills[t] + dropKills[t] <= 1
          /\ (kills[t] + dropKills[t] = 1 => elapsed[t] >= GraceMs)
          /\ (pc[t] \in AfterCall => kills[t] = 1 /\ dropKills[t] = 0)

C3_Witness ==
    \E t \in Triggers :
       /\ took[t] /\ ~sawDead[t] /\ pc[t] = "returned"
       /\ kills[t] = 1 /\ elapsed[t] >= GraceMs /\ childState = "exited"

\* C4: a trigger that calls kill_sidecar while another one is running the
\* termination protocol is not held up by it: the lock it asks for is not in
\* the hands of the trigger running the protocol.
C4_SecondTriggerNotBlocked ==
    \A t, u \in Triggers :
       (pc[t] = "lock" /\ pc[u] \in ProtocolPcs) => lockHolder # u

\* C5: every call of kill_sidecar returns; the only calls that do not are
\* calls that took nothing and were cut short by the process exiting.
C5_EveryCallReturns ==
    \A t \in Triggers :
       (pc[t] \in InCall) ~> (pc[t] \in AfterCall \/ (appExited /\ ~took[t]))

C5_Witness ==
    \E t, u \in Triggers :
       /\ t # u /\ pc[t] = "returned" /\ took[t] /\ sigs[t] = 0 /\ kills[t] = 1
       /\ pc[u] \in AfterCall /\ sawEmpty[u]

\* C6: when std::process::exit is called the slot is empty, no trigger is
\* inside the termination protocol, and the one protocol run has ended with
\* the child seen gone or the forced kill issued.
C6_ExitAfterProtocol ==
    appExited =>
       /\ ~slot.present
       /\ \A t \in Triggers : pc[t] \notin ProtocolPcs
       /\ \E t \in Triggers : took[t] /\ (sawDead[t] \/ kills[t] = 1)

C6_Witness ==
    /\ appExited
    /\ \E t, u \in Triggers :
          /\ t # u /\ took[t] /\ kind[t] = "window" /\ kills[t] = 1
          /\ kind[u] \in {"menu", "exit"} /\ sawEmpty[u]

\* C7: every menu-quit or exit-requested trigger is eventually followed by
\* the application exiting.
C7_TriggerLeadsToExit ==
    \A t \in Triggers : (kind[t] \in {"menu", "exit"}) ~> appExited

C7_Witness ==
    /\ appExited
    /\ \E t, u \in Triggers :
          /\ kind[t] = "exit" /\ sawEmpty[t] /\ pc[t] = "exit_thread"
          /\ took[u] /\ sawDead[u]

\* C8: the slot goes empty -> holding -> emptied and never back: it is stored
\* into at most once (by start_server), taken from at most once (by a take of
\* kill_sidecar), and stays empty after the take.
SlotPhase ==
    IF slot.present THEN "holding"
    ELSE IF Takers # {} THEN "emptied" ELSE "empty"

C8_SlotLifecycle ==
    /\ [](/\ stores <= 1
          /\ Cardinality(Takers) <= 1
          /\ (slot.present => stores = 1 /\ Takers = {})
          /\ (stores = 0 => Takers = {}))
    /\ [][/\ (SlotPhase = "empty" => SlotPhase' \in {"empty", "holding"})
          /\ (SlotPhase = "holding" => SlotPhase' \in {"holding", "emptied"})
          /\ (SlotPhase = "emptied" => SlotPhase' = "emptied")
          /\ (~slot.present /\ slot'.present => mainPc = "start_server")
          /\ (slot.present /\ ~slot'.present =>
                \E t \in Triggers : pc[t] = "take")]_vars

C8_Witness ==
    /\ SlotPhase = "emptied" /\ stores = 1
    /\ \E t, u \in Triggers : took[t] /\ sawEmpty[u] /\ pc[u] \in AfterCall

\* C9: check_server_started returns only from an attempt made while the port
\* accepts; a failed attempt goes to the sleep and the sleep to another
\* attempt, and the wait ends in no other way.
C9_ReadinessWait ==
    [][/\ (mainPc = "check_connect" /\ mainPc' # mainPc =>
             IF tcpListening THEN mainPc' = "start_heartbeat"
                             ELSE mainPc' = "check_sleep")
       /\ (mainPc = "check_sleep" /\ mainPc' # mainPc =>
             mainPc' = "check_connect")
       /\ (mainPc' = "start_heartbeat" /\ mainPc # mainPc' =>
             mainPc = "check_connect" /\ tcpListening)]_vars

C9_Witness == mainPc = "start_heartbeat" /\ tcpListening

\* C10: once connected the heartbeat thread alternates write and sleep, each
\* write on the standing connection writing a marker; it stops only on a
\* write to a severed connection, and once stopped or severed it never
\* reconnects and never writes again.
C10_HeartbeatStops ==
    [][/\ (hbPc = "write" /\ hbPc' # hbPc =>
             IF link = "connected"
             THEN hbPc' = "write_sleep" /\ hbOdd' # hbOdd
             ELSE hbPc' = "stopped" /\ hbOdd' = hbOdd)
       /\ (hbPc = "write_sleep" /\ hbPc' # hbPc => hbPc' = "write")
       /\ (hbPc = "stopped" => hbPc' = "stopped")
       /\ (link = "severed" => link' = "severed" /\ hbOdd' = hbOdd)]_vars

C10_Witness == hbPc = "stopped" /\ link = "severed" /\ hbOdd

\* C11 (as claimed): once the spawn has failed no heartbeat thread exists, no
\* trigger has run and no trigger handler is registered.
C11_NothingRegistered ==
    mainPc = "aborted" =>
       /\ hbPc = "none"
       /\ \A t \in Triggers : pc[t] = "idle"
       /\ registered = {}

\* C11 (amended): while no sidecar has been spawned, and for good once the
\* spawn has failed, setup is not in the readiness wait or beyond, no
\* heartbeat thread exists and no trigger has run; setup aborts straight
\* from start_server and stays aborted. The handlers themselves are
\* registered by then.
SetupBeforeSpawn == {"builder", "start_server", "aborted"}

C11_AbortedStartup ==
    /\ [](childState = "none" =>
            /\ mainPc \in SetupBeforeSpawn
            /\ hbPc = "none" /\ link = "none"
            /\ ~slot.present
            /\ \A t \in Triggers : pc[t] = "idle")
    /\ [](mainPc = "aborted" => childState = "none" /\ registered = Kinds)
    /\ [][/\ (mainPc = "aborted" => mainPc' = "aborted")
          /\ (mainPc' = "aborted" /\ mainPc # "aborted" =>
                mainPc = "start_server")]_vars

C11_Witness == mainPc = "aborted" /\ registered = Kinds /\ childState = "none"

\* C12: setup runs spawn, then the readiness wait, then the heartbeat start:
\* the wait is entered only from start_server with the child stored in the
\* slot, and the heartbeat thread is created only by start_heartbeat, which
\* is entered only from a connection attempt of the wait.
C12_StartupOrder ==
    /\ [](/\ (mainPc \in {"check_connect", "check_sleep", "start_heartbeat"} =>
                slot.present /\ stores = 1 /\ hbPc = "none")
          /\ (hbPc # "none" => mainPc = "running" /\ stores = 1))
    /\ [][/\ (mainPc' \in {"check_connect", "check_sleep"}
                /\ mainPc \notin {"check_connect", "check_sleep"} =>
                  mainPc = "start_server" /\ slot'.present)
          /\ (mainPc' = "start_heartbeat" /\ mainPc # mainPc' =>
                mainPc = "check_connect")
          /\ (hbPc = "none" /\ hbPc' # "none" =>
                mainPc = "start_heartbeat" /\ mainPc' = "running")]_vars

C12_Witness ==
    mainPc = "running" /\ hbPc = "connect" /\ slot.present /\ stores = 1

C14_NoPidStraightToKill ==
    \A t \in Triggers :
       (took[t] /\ ~taken[t].pid) =>
          /\ sigs[t] = 0 /\ ~probed[t] /\ ~sawDead[t] /\ elapsed[t] = 0
          /\ pc[t] \in {"signal", "kill", "drop"} \cup AfterCall
          /\ (taken[t].child /\ pc[t] \in {"drop"} \cup AfterCall =>
                kills[t] = 1)

C14_Witness ==
    \E t \in Triggers :
       /\ took[t] /\ ~taken[t].pid /\ taken[t].child
       /\ pc[t] = "returned" /\ kills[t] = 1 /\ sigs[t] = 0

\* C15: whatever fails inside the protocol (the SIGTERM command, a probe, the
\* forced kill), no trigger panics, the run that took the child reaches the
\* end of kill_sidecar, and it leaves the slot empty and the lock released.
C15_FailuresAbsorbed ==
    /\ [](\A t \in Triggers :
            /\ pc[t] # "panicked"
            /\ (took[t] /\ pc[t] \in AfterCall =>
                  ~slot.present /\ lockHolder # t))
    /\ \A t \in Triggers : took[t] ~> (pc[t] \in AfterCall)

\* The SIGTERM was not delivered to the running sidecar and the forced kill
\* did not end it, and kill_sidecar has returned all the same.
C15_Witness ==
    \E t \in Triggers :
       /\ took[t] /\ pc[t] = "returned" /\ sigs[t] = 1 /\ kills[t] = 1
       /\ childState = "running" /\ ~termPending /\ ~slot.present

\* C16: the grace loop is left in two ways only: early, on a probe that ran
\* and found the sidecar gone, or to the fallback once 2000 ms have elapsed;
\* inside the loop the elapsed time never goes back, and a SIGTERM command
\* that failed enters the loop like one that succeeded.
C16_OnlyDeathEndsWindowEarly ==
    /\ [](\A t \in Triggers : earlyBy[t] \in {"none", "dead"})
    /\ [][\A t \in Triggers :
            /\ (pc[t] \in {"poll", "sleep"} /\ pc'[t] \notin {"poll", "sleep"} =>
                  \/ /\ pc'[t] = "drop" /\ earlyBy'[t] = "dead"
                     /\ childState # "running"
                  \/ /\ pc'[t] = "kill" /\ elapsed[t] >= GraceMs)
            /\ (pc[t] \in {"poll", "sleep"} => elapsed'[t] >= elapsed[t])
            /\ (pc[t] = "signal" /\ taken[t].pid /\ pc'[t] # pc[t] =>
                  pc'[t] = "poll")]_vars

C16_Witness ==
    \E t, u \in Triggers :
       /\ t # u /\ earlyBy[t] = "dead" /\ pc[t] = "drop"
       /\ elapsed[t] > 0 /\ elapsed[t] < GraceMs /\ pc[u] = "lock"

\* C17: a marker is written only on an established connection; a failed
\* connection attempt goes to the sleep and the sleep to another attempt;
\* and if from some time on the thread exists, the application has not
\* exited and the socket listens, the thread connects.
C17_HeartbeatConnects ==
    /\ [][/\ (hbOdd' # hbOdd => link = "connected" /\ hbPc = "write")
          /\ (hbPc = "connect" /\ hbPc' # hbPc =>
                IF sockListening
                THEN hbPc' = "write" /\ link' = "connected"
                ELSE hbPc' = "connect_sleep" /\ link' = "none")
          /\ (hbPc = "connect_sleep" /\ hbPc' # hbPc =>
                hbPc' = "connect")]_vars
    /\ [](link = "none" => ~hbOdd)
    /\ (<>[](hbPc # "none" /\ sockListening /\ ~appExited)
          => <>(link # "none"))

C17_Witness == hbPc = "write_sleep" /\ link = "connected" /\ hbOdd

\* C18: a run that took a process with a child handle calls kill on it at
\* most once at any time and exactly once by the time it has returned: at the
\* fallback, which empties the handle, or in Drop when a probe found the
\* sidecar gone.
C18_KillExactlyOnce ==
    \A t \in Triggers :
       (took[t] /\ taken[t].child) =>
          /\ kills[t] + dropKills[t] <= 1
          /\ (kills[t] = 1 /\ pc[t] \in ProtocolPcs => ~process[t].child)
          /\ (pc[t] \in AfterCall =>
                /\ kills[t] + dropKills[t] = 1
                /\ (dropKills[t] = 1 <=> sawDead[t]))

C18_Witness ==
    \E t \in Triggers :
       /\ took[t] /\ taken[t].child /\ taken[t].pid /\ pc[t] = "returned"
       /\ sawDead[t] /\ dropKills[t] = 1 /\ kills[t] = 0

====
